---- MODULE Spec2Model ----
(***************************************************************************)
(* A model of the Synse Python client (vapor-ware/synse-client-python):    *)
(*   - WebsocketClientV3: the session, its correlation-ID generator, and   *)
(*     the request / stream_request exchanges (synse/client.py),           *)
(*   - utils.process_ws_response (synse/utils.py),                         *)
(*   - errors.wrap_and_raise_for_error (synse/errors.py).                  *)
(*                                                                         *)
(* Spec     : the WebSocket session as a state machine of coroutines.      *)
(* SpecId   : _next_id called by concurrent tasks, lock step by lock step. *)
(* SpecWs   : process_ws_response applied to every frame shape.            *)
(* SpecHttp : wrap_and_raise_for_error applied to every response shape.    *)
(***************************************************************************)
EXTENDS Integers, Sequences, FiniteSets, TLC

\* ---------------------------------------------------------------- bounds
\* Number of coroutines (asyncio tasks) sharing one WebsocketClientV3.
NumTasks == 2
\* Number of correlation IDs the exchanges of one session use (Spec).
MaxIds == 2
\* Number of _next_id calls made by the concurrent tasks (SpecId).
MaxNextIds == 4
\* Number of frames the server pushes for one streaming envelope.
MaxStreamFrames == 2
\* Number of keys of a payload given to a response class (SpecModels).
MaxKeys == 2
\* Number of elements of a list given to make_response (SpecModels).
MaxItems == 2
\* Number of session.close() calls of close() that are counted.
MaxCloses == 2

Tasks == 1..NumTasks
\* A connection is dialled only while self._connection is None, so a session
\* has at most as many connections as it has tasks dialling at once.
Handles == 1..NumTasks

\* Python's None for the connection handle, and the "no value" marker.
None == 0
NoVal == -1

\* ------------------------------------------------------------ exceptions
\* synse/errors.py: the SynseError family.
SynseFamily == {"SynseError", "InvalidInput", "NotFound", "ServerError"}
\* Exceptions the transport (aiohttp / asyncio) raises by itself.
\* aiohttp.ClientError is the one connect() catches; asyncio.TimeoutError and
\* ConnectionResetError are not subclasses of it.
TransportNative == {"ClientError", "TimeoutError", "ConnectionResetError"}
\* The failures session.ws_connect can end with.
ConnectFailures == {"ClientError", "TimeoutError"}

VARIABLES
  connection,   \* self._connection: None or the handle ws_connect returned
  closed,       \* self.session.closed
  idc,          \* self._id_iter: the value next() returns next
  lock,         \* self._id_lock: None or the task holding it
  nid,          \* per task: where it is in a direct _next_id call (SpecId)
  chan,         \* per handle: [up: transport alive, inbox: frames to receive]
  wire,         \* envelopes written with send_str the server has yet to answer
  sent,         \* per id: how many envelopes were written with it (history)
  served,       \* number of frames the server has pushed for the oldest envelope
  calls,        \* the request / stream_request calls under way
  dialing,      \* number of connect calls awaiting session.ws_connect
  last,         \* the call that has just completed (or yielded), if any
  issued,       \* every value _next_id has returned, in order of return
  serial,       \* TRUE while the caller has kept all its calls apart
  abandoned,    \* the streams the consumer stopped iterating (history)
  failed,       \* ids of the requests an error frame made raise (history)
  closes,       \* how many times close() awaited session.close() (history)
  frame,        \* SpecWs: the message given to process_ws_response
  wsout,        \* SpecWs: what process_ws_response did with it
  resp,         \* SpecHttp: the response given to wrap_and_raise_for_error
  httpout,      \* SpecHttp: what wrap_and_raise_for_error did with it
  bodyread,     \* SpecHttp: whether it awaited response.text()
  hclosed,      \* SpecCall: HTTPClientV3.session.closed
  hcall,        \* SpecCall: the last call made on the HTTPClientV3
  ctx,          \* SpecCtx: the `async with` block the client is used in
  mcls,         \* SpecModels: the response_class given to make_response
  mdata,        \* SpecModels: the decoded response given to make_response
  mout          \* SpecModels: what make_response did with them

vars == <<connection, closed, idc, lock, nid, chan, wire, sent, served, calls, dialing, last, issued, serial, abandoned, failed, closes, frame, wsout, resp, httpout, bodyread, hclosed, hcall, ctx, mcls, mdata, mout>>

\* ------------------------------------------------------- pure functions
\* An outcome: a returned value, a yielded item or a raised exception with
\* its message and its cause (`raise ... from e`).
Ret(v)   == [st |-> "ret", exc |-> "none", cause |-> "none", val |-> v, msg |-> ""]
Yield(v) == [st |-> "yield", exc |-> "none", cause |-> "none", val |-> v, msg |-> ""]
NoOut    == [st |-> "none", exc |-> "none", cause |-> "none", val |-> NoVal, msg |-> ""]
RaiseMsg(e, c, m) ==
  [st |-> "raise", exc |-> e, cause |-> c, val |-> NoVal, msg |-> m]
Raise(e, c) == RaiseMsg(e, c, "")

\* A received aiohttp.WSMessage, by what process_ws_response reads of it:
\*   type     : message type (text / binary / closed / error)
\*   json     : whether response.json() can decode the text
\*   hasEvent : whether the decoded object has the key 'event'
\*   event    : msg['event']
\*   hasCode  : whether msg['data'] has the key 'http_code'
\*   code     : msg['data']['http_code']
\*   hasDesc  : whether msg['data'] has the key 'description'
\*   hasCtx   : whether msg['data'] has the key 'context'
\*   id       : msg['id']
Frame(ty, js, he, ev, hc, c, hd, hx, i) ==
  [type |-> ty, json |-> js, hasEvent |-> he, event |-> ev, hasCode |-> hc,
   code |-> c, hasDesc |-> hd, hasCtx |-> hx, id |-> i]

OkFrame(i)     == Frame("text", TRUE, TRUE, "response/ok", FALSE, 0, FALSE, FALSE, i)
ErrFrame(i, c) == Frame("text", TRUE, TRUE, "response/error", TRUE, c, TRUE, FALSE, i)
Signal(ty)     == Frame(ty, FALSE, FALSE, "", FALSE, 0, FALSE, FALSE, NoVal)
ClosedMsg      == Signal("closed")

\* f'{desc} [{status}]: {ctx}' with the defaults of the two .get calls.
WsErrText(response) ==
  (IF response.hasDesc THEN "desc" ELSE "") \o " [" \o ToString(response.code)
    \o "]: " \o (IF response.hasCtx THEN "ctx" ELSE "no context available")

\* process_ws_response that classifies 500 like the HTTP table (mutant).
WsErrorClass_Http(status) ==
  IF status = 404 THEN "NotFound"
  ELSE IF status = 400 THEN "InvalidInput"
  ELSE IF status = 500 THEN "ServerError"
  ELSE "SynseError"

\* process_ws_response: the if / elif / else over msg['data']['http_code'].
WsErrorClass(status) ==
  IF status = 404 THEN "NotFound"
  ELSE IF status = 400 THEN "InvalidInput"
  ELSE "SynseError"

\* Returning msg['data'] alone, without the id and the event (mutant).
ReturnedMessage_DataOnly(response) == Ret(NoVal)

\* `return msg`: the decoded message is returned whole; of its members the
\* model keeps the id and the event.
ReturnedMessage(response) == [Ret(response.id) EXCEPT !.msg = response.event]

\* utils.process_ws_response: the decoded message or the exception raised. response.json() on undecodable text raises
\* json.JSONDecodeError; a missing key raises KeyError.
ProcessWsResponse(response) ==
  IF response.type = "text"
  THEN IF ~response.json THEN Raise("JSONDecodeError", "none")
       ELSE IF ~response.hasEvent THEN Raise("KeyError", "none")
       ELSE IF response.event = "response/error"
            THEN IF ~response.hasCode THEN Raise("KeyError", "none")
                 ELSE RaiseMsg(WsErrorClass(response.code), "none",
                               WsErrText(response))
            ELSE ReturnedMessage(response)
  ELSE IF response.type = "closed"
  THEN RaiseMsg("SynseError", "none", "WebSocket connection closed")
  ELSE IF response.type = "error"
  THEN RaiseMsg("SynseError", "none", "WebSocket error")
  ELSE RaiseMsg("SynseError", "none", "Unexpected WebSocket response")

\* ----------------------------------------------------- errors.py (HTTP)
\* An HTTP response, by what wrap_and_raise_for_error reads of it:
\*   status   : response.status
\*   given    : whether the caller passed `body` (stream_request passes
\*              resp.reason, make_request passes nothing)
\*   readable : whether `await response.text()` succeeds
\*   body     : the text of the body argument when given, else of the response
Response(s, g, rd, b) == [status |-> s, given |-> g, readable |-> rd, body |-> b]

\* response.reason, the fallback body when the text cannot be read.
Reason(status) == "reason " \o ToString(status)

\* errors.code_to_err without the entry for 500 (mutant).
CodeToErr_No500(status) ==
  IF status = 400 THEN "InvalidInput"
  ELSE IF status = 404 THEN "NotFound"
  ELSE "none"

\* errors.code_to_err with every status from 500 up mapped (mutant).
CodeToErr_Band(status) ==
  IF status = 400 THEN "InvalidInput"
  ELSE IF status = 404 THEN "NotFound"
  ELSE IF status >= 500 THEN "ServerError"
  ELSE "none"

\* errors.code_to_err.get(status): the class for the status, "none" for None.
CodeToErr(status) ==
  IF status = 400 THEN "InvalidInput"
  ELSE IF status = 404 THEN "NotFound"
  ELSE IF status = 500 THEN "ServerError"
  ELSE "none"

\* The body texts the responses are drawn from.
CtxBody == "{\"context\":\"x\"}"
Bodies == {CtxBody, "{}", "[]", "\"s\"", "oops", ""}

\* json.loads(body): the kind of value decoded ("invalid" when it raises
\* json.JSONDecodeError), and for an object its 'context' member.
JsonLoads(body) ==
  IF body = CtxBody THEN [kind |-> "object", hasContext |-> TRUE, context |-> "x"]
  ELSE IF body = "{}" THEN [kind |-> "object", hasContext |-> FALSE, context |-> ""]
  ELSE IF body = "[]" THEN [kind |-> "array", hasContext |-> FALSE, context |-> ""]
  ELSE IF body = "\"s\"" THEN [kind |-> "string", hasContext |-> FALSE, context |-> ""]
  ELSE [kind |-> "invalid", hasContext |-> FALSE, context |-> ""]

\* response.raise_for_status(): raises aiohttp.ClientResponseError for 400
\* and above only.
RaiseForStatus(status) == status >= 400

\* The body the error is built from: the argument, or the text of the
\* response, or response.reason when reading the text raised.
BodyOf(response) ==
  IF response.given \/ response.readable THEN response.body
  ELSE Reason(response.status)

\* Reading the text only once the status has proved an error (mutant).
TextAwaited_OnError(response) ==
  ~response.given /\ RaiseForStatus(response.status)

\* `if body is None: body = await response.text()`, which runs before the
\* status is looked at: whether the text of the response is read.
TextAwaited(response) == ~response.given

\* `except Exception as e: raise error_cls(f'error: {body}') from e`, where e
\* is the failure of json.loads (the inner `as e` shadows the outer one).
ParseFailed(error_cls, body) ==
  RaiseMsg(error_cls, "JSONDecodeError", "error: " \o body)

\* str(error_cls(data.get('context'))): the context, and "None" when the
\* object has no such member (str() of an exception built from None).
ErrorMessage(data) == IF data.hasContext THEN data.context ELSE "None"

\* errors.wrap_and_raise_for_error: returns None or raises. data.get on a
\* decoded value that is no object raises AttributeError.
WrapAndRaiseForError(response) ==
  LET body == BodyOf(response)
      error_cls == CodeToErr(response.status)
      data == JsonLoads(body)
  IN
  IF ~RaiseForStatus(response.status) THEN Ret(NoVal)
  ELSE IF error_cls # "none"
  THEN IF data.kind = "invalid"
       THEN ParseFailed(error_cls, body)
       ELSE IF data.kind # "object" THEN Raise("AttributeError", "none")
       ELSE RaiseMsg(error_cls, "ClientResponseError", ErrorMessage(data))
  ELSE Raise("SynseError", "ClientResponseError")

\* Values the variables of SpecWs, SpecHttp and SpecCall keep in the other
\* specifications.
NoCall == [op |-> "none", net |-> "none", out |-> NoOut]
NoFrame == Signal("none")
NoResp == Response(0, FALSE, FALSE, "")
\* The client is used outside any `async with` block. Otherwise: which client
\* it is, where the block is (out, entering, body, exiting, exited, failed),
\* how often __aenter__ has called connect and __aexit__ has called close,
\* whether the body raised, whether the session was closed already when
\* __aenter__ was called, the exception that left __aenter__, and how often
\* the user has called close by hand.
NoCtx == [client |-> "none", pc |-> "out", nconnect |-> 0, nclose |-> 0,
          raised |-> FALSE, wasClosed |-> FALSE, exc |-> "none", nhand |-> 0]
\* The decoded JSON null, and make_response not called yet.
Null == [kind |-> "null", s |-> "", items |-> <<>>]
NotMade == [st |-> "none", exc |-> "none", kind |-> "none", val |-> Null,
            insts |-> <<>>]

\* ------------------------------------------------------------ the session
\* What a caller may pass as `data` to request / stream_request.
DataInputs == {"None", "empty", "params"}
\* A truth test that takes every value but None as true (mutant).
Truthy_NotNone(data) == data # "None"

\* Python truthiness of `data` in `if data:`.
Truthy(data) == data = "params"

\* The http_code values the server puts in a response/error frame.
ServerCodes == {404, 500}

\* A call: the operation, where it is suspended, the handle it read from
\* self.connection, the id it got, the `data` it was called with, whether
\* the envelope it is about to write has data, and how many ids it allocated
\* (na), envelopes it wrote (nw), frames it received (nr) and connections it
\* dialled (nc).
IdleCall == [op |-> "none", pc |-> "idle", ws |-> None, rid |-> NoVal,
             data |-> "None", hasData |-> FALSE, na |-> 0, nw |-> 0,
             nr |-> 0, nc |-> 0]
NewCall(o, p, h) == [IdleCall EXCEPT !.op = o, !.pc = p, !.ws = h]
ConnectCall(n) == [NewCall("connect", "idle", None) EXCEPT !.nc = n]
Exchanges == {"request", "stream"}

\* The record of a call's completion: the call as it ended and its outcome.
Done(c, o) == [op |-> c.op, rid |-> c.rid, na |-> c.na, nw |-> c.nw,
               nr |-> c.nr, nc |-> c.nc, st |-> o.st, exc |-> o.exc,
               cause |-> o.cause, val |-> o.val]

\* No outcome is waiting to be handed to its caller.
NoDone == Done(IdleCall, NoOut)
Quiet == last = NoDone

IdleId == [pc |-> "idle", got |-> NoVal]

\* WebsocketClientV3.__init__
NewSession ==
  /\ connection = None
  /\ closed = FALSE
  /\ idc = 0
  /\ lock = None
  /\ nid = [t \in Tasks |-> IdleId]
  /\ chan = [h \in Handles |-> [up |-> FALSE, inbox |-> <<>>]]
  /\ wire = <<>>
  /\ sent = [i \in 0..(MaxIds - 1) |-> 0]
  /\ served = 0
  /\ calls = {}
  /\ dialing = 0
  /\ last = NoDone
  /\ issued = <<>>
  /\ serial = TRUE
  /\ abandoned = {}
  /\ failed = {}
  /\ closes = 0

Init ==
  /\ NewSession
  /\ frame = NoFrame
  /\ wsout = NoOut
  /\ resp = NoResp
  /\ httpout = NoOut
  /\ bodyread = FALSE
  /\ hclosed = FALSE
  /\ hcall = NoCall
  /\ ctx = NoCtx
  /\ mcls = "None"
  /\ mdata = Null
  /\ mout = NotMade

\* The number of coroutines suspended in a call of the session.
Busy == Cardinality(calls) + dialing

\* A coroutine is free to start a call that will suspend.
CanSuspend == Busy < NumTasks

\* The caller has kept its calls apart so far: none is under way when
\* another starts.
StillSerial == serial /\ Busy = 0

\* connect() that dials whether or not a connection exists (mutant).
ConnectGuard_Always == TRUE

\* connect(): `if self._connection is None`
ConnectGuard == connection = None

\* WebsocketClientV3.connect, up to the await of session.ws_connect.
\* On a closed aiohttp session ws_connect raises RuntimeError at once, which
\* is no aiohttp.ClientError and so passes through the except clause.
ConnectCalled ==
  /\ Quiet
  /\ serial' = StillSerial
  /\ IF ~ConnectGuard
     THEN /\ last' = Done(ConnectCall(0), Ret(connection))
          /\ UNCHANGED dialing
     ELSE IF closed
     THEN /\ last' = Done(ConnectCall(0), Raise("RuntimeError", "none"))
          /\ UNCHANGED dialing
     ELSE /\ CanSuspend
          /\ dialing' = dialing + 1
          /\ UNCHANGED last

\* A connect call made by the client's user.
Connect ==
  /\ ConnectCalled
  /\ UNCHANGED <<connection, closed, idc, lock, nid, chan, wire, sent,
                 served, calls, issued, abandoned, failed, closes, frame,
                 wsout, resp, httpout, bodyread, hclosed, hcall, ctx, mcls,
                 mdata, mout>>

\* A session that still makes connections once it is closed (mutant).
SessionUsable_Always(c) == TRUE

\* session.ws_connect can give a connection only while the session is open:
\* closing the session closes its connector, which refuses new connections
\* and closes those being made (c is self.session.closed).
SessionUsable(c) == ~c

\* session.ws_connect succeeded: the handle of the new connection is stored
\* in self._connection and returned. Handles are numbered in the order the
\* connections are made, so the newest is the one self._connection holds.
ConnectOk ==
  /\ Quiet
  /\ dialing > 0
  /\ SessionUsable(closed)
  /\ connection + 1 \in Handles
  /\ connection' = connection + 1
  /\ chan' = [chan EXCEPT ![connection + 1] = [up |-> TRUE, inbox |-> <<>>]]
  /\ dialing' = dialing - 1
  /\ last' = Done(ConnectCall(1), Ret(connection + 1))
  /\ UNCHANGED <<closed, idc, lock, nid, wire, sent, served, calls, issued,
                 serial, abandoned, failed, closes, frame, wsout, resp,
                 httpout, bodyread, hclosed, hcall, ctx, mcls, mdata, mout>>

\* connect() whose except clause catches every failure (mutant).
ConnectCatches_All(kind) == TRUE

\* connect(): `except aiohttp.ClientError`
ConnectCatches(kind) == kind = "ClientError"

\* session.ws_connect raised: a caught failure is raised again as SynseError
\* with the failure as its cause; any other propagates as it is.
ConnectFail(kind) ==
  /\ Quiet
  /\ dialing > 0
  /\ dialing' = dialing - 1
  /\ last' = Done(ConnectCall(1), IF ConnectCatches(kind)
                                  THEN Raise("SynseError", kind)
                                  ELSE Raise(kind, "none"))
  /\ UNCHANGED <<connection, closed, idc, lock, nid, chan, wire, sent,
                 served, calls, issued, serial, abandoned, failed, closes,
                 frame, wsout, resp, httpout, bodyread, hclosed, hcall, ctx,
                 mcls, mdata, mout>>

\* A session whose close leaves its connections open (mutant).
AfterSessionClose_Open(ch) == ch

\* `await self.session.close()`: closing the aiohttp session closes its
\* connector and with it the transport of every connection the session
\* opened; the frames not yet received go with it.
AfterSessionClose(ch) == [h \in Handles |-> [up |-> FALSE, inbox |-> <<>>]]

\* close() that closes the session whatever its state (mutant).
CloseGuard_Always(c) == TRUE

\* close(): `if not self.session.closed` (c is self.session.closed).
CloseGuard(c) == ~c

\* The count of the session.close() calls made by close(), after one more.
Counted(n) == IF n < MaxCloses THEN n + 1 ELSE n

\* WebsocketClientV3.close
CloseCalled ==
  /\ Quiet
  /\ serial' = StillSerial
  /\ last' = Done(NewCall("close", "idle", None), Ret(NoVal))
  /\ IF CloseGuard(closed)
     THEN /\ closed' = TRUE
          /\ chan' = AfterSessionClose(chan)
          /\ closes' = Counted(closes)
     ELSE UNCHANGED <<closed, chan, closes>>

\* A close call made by the client's user.
Close ==
  /\ CloseCalled
  /\ UNCHANGED <<connection, idc, lock, nid, wire, sent, served, calls,
                 dialing, issued, abandoned, failed, frame, wsout, resp,
                 httpout, bodyread, hclosed, hcall, ctx, mcls, mdata, mout>>

\* itertools.count whose next() does not advance (mutant).
CountNext_Stuck(c) == c

\* itertools.count: the counter after next() has returned c.
CountNext(c) == c + 1

\* The `connection` property without its None check (mutant).
ConnectionProperty_NoGuard == Ret(connection)

\* WebsocketClientV3.connection: the handle, or RuntimeError when it is None.
ConnectionProperty ==
  IF connection = None THEN Raise("RuntimeError", "none") ELSE Ret(connection)

\* The first lines of request and stream_request, which run without
\* suspending: `ws = self.connection`, `await self._next_id()` (a coroutine
\* of the event loop finds the lock free, see SpecId) and the envelope built
\* with `if data:`.
StartExchange(o, data) ==
  /\ Quiet
  /\ lock = None
  /\ LET c == ConnectionProperty IN
     IF c.st = "raise"
     THEN /\ last' = Done(NewCall(o, "idle", None), c)
          /\ UNCHANGED <<calls, idc, issued>>
     ELSE /\ CanSuspend
          /\ Len(issued) < MaxIds
          /\ calls' = calls \cup
                {[NewCall(o, "send", c.val) EXCEPT
                    !.rid = idc, !.na = 1, !.data = data,
                    !.hasData = Truthy(data)]}
          /\ idc' = CountNext(idc)
          /\ issued' = Append(issued, idc)
          /\ UNCHANGED last

\* WebsocketClientV3.request up to its send.
Request(data) ==
  /\ StartExchange("request", data)
  /\ serial' = IF connection = None THEN serial ELSE StillSerial
  /\ UNCHANGED <<connection, closed, lock, nid, chan, wire, sent, served,
                 dialing, abandoned, failed, closes, frame, wsout, resp,
                 httpout, bodyread, hclosed, hcall, ctx, mcls, mdata, mout>>

\* WebsocketClientV3.stream_request up to its send, from the consumer's first
\* pull of the async generator (creating the generator runs none of its body).
Stream(data) ==
  /\ StartExchange("stream", data)
  /\ serial' = IF connection = None THEN serial ELSE FALSE
  /\ UNCHANGED <<connection, closed, lock, nid, chan, wire, sent, served,
                 dialing, abandoned, failed, closes, frame, wsout, resp,
                 httpout, bodyread, hclosed, hcall, ctx, mcls, mdata, mout>>

\* The request envelope: id, event (single-reply or streaming) and, when
\* `if data:` held, the data key; h is the connection it is written to.
Envelope(c) ==
  [h |-> c.ws, id |-> c.rid, stream |-> c.op = "stream", hasData |-> c.hasData]

\* send_str that writes the envelope a second time (mutant: a resend).
Written_Twice(w, env) == Append(Append(w, env), env)

\* ws.send_str(json.dumps(req)): the envelope goes on the wire once.
Written(w, env) == Append(w, env)

\* `await ws.send_str(...)`: on a transport that is closing the writer raises
\* ConnectionResetError; request and stream_request have no handler for it.
Send(c) ==
  /\ Quiet
  /\ c \in calls
  /\ c.pc = "send"
  /\ IF c.ws = None
     THEN /\ last' = Done(c, Raise("AttributeError", "none"))
          /\ calls' = calls \ {c}
          /\ UNCHANGED <<wire, sent>>
     ELSE IF chan[c.ws].up
     THEN /\ wire' = Written(wire, Envelope(c))
          /\ sent' = [sent EXCEPT ![c.rid] = @ + Len(wire') - Len(wire)]
          /\ calls' = (calls \ {c}) \cup
                {[c EXCEPT !.pc = "recv", !.hasData = FALSE,
                           !.nw = @ + Len(wire') - Len(wire)]}
          /\ UNCHANGED last
     ELSE /\ last' = Done(c, Raise("ConnectionResetError", "none"))
          /\ calls' = calls \ {c}
          /\ UNCHANGED <<wire, sent>>
  /\ UNCHANGED <<connection, closed, idc, lock, nid, chan, served, dialing,
                 issued, serial, abandoned, failed, closes, frame, wsout,
                 resp, httpout, bodyread, hclosed, hcall, ctx, mcls, mdata,
                 mout>>

\* The position of the first frame carrying id i, the head when none does.
RECURSIVE FirstWithId(_, _, _)
FirstWithId(inbox, i, k) ==
  IF k > Len(inbox) THEN 1
  ELSE IF inbox[k].id = i THEN k
  ELSE FirstWithId(inbox, i, k + 1)

\* receive() that hands a call the frame carrying its own id (mutant).
NextFrame_ById(inbox, i) == FirstWithId(inbox, i, 1)

\* ws.receive(): the position in the queue of the frame the reader is given:
\* the oldest, whatever its id.
NextFrame(inbox, i) == 1

\* receive() that leaves the frame in the queue (mutant: a peek).
Rest_Peek(inbox, k) == inbox

\* The queue after the frame at position k has been taken.
Rest(inbox, k) == SubSeq(inbox, 1, k - 1) \o SubSeq(inbox, k + 1, Len(inbox))

\* A stream that ends normally when the connection is closed (mutant).
Delivered_EndOnClose(o, r) ==
  IF o = "stream" /\ r.st = "ret" THEN Yield(r.val)
  ELSE IF o = "stream" /\ r.msg = "WebSocket connection closed" THEN Ret(NoVal)
  ELSE r

\* What the caller of request / the consumer of stream_request gets for a
\* processed frame: request returns it, stream_request yields it.
Delivered(o, r) == IF o = "stream" /\ r.st = "ret" THEN Yield(r.val) ELSE r

\* receive() that gives up, as on a closed connection, when no frame is
\* queued (mutant: a timeout).
Awaited_Timeout(up, q) == IF up /\ q # <<>> THEN q ELSE <<ClosedMsg>>

\* `await ws.receive()`, called with no timeout: the messages it can return
\* now. On a live connection these are the frames queued, and it waits while
\* there are none; on a closed one it answers with the closed message.
Awaited(up, q) == IF up THEN q ELSE <<ClosedMsg>>

\* `resp = await ws.receive()` and utils.process_ws_response(resp).
Recv(c) ==
  /\ Quiet
  /\ c \in calls
  /\ c.pc = "recv"
  /\ LET h == c.ws
         q == chan[h].inbox
     IN
     /\ Awaited(chan[h].up, q) # <<>>
     /\ LET k == NextFrame(q, c.rid)
            msg == Awaited(chan[h].up, q)[k]
            r == Delivered(c.op, ProcessWsResponse(msg))
            d == [c EXCEPT !.nr = @ + 1]
        IN
        /\ chan' = IF chan[h].up
                   THEN [chan EXCEPT ![h].inbox = Rest(q, k)]
                   ELSE chan
        /\ last' = Done(d, r)
        /\ calls' = IF r.st = "yield"
                    THEN (calls \ {c}) \cup {[d EXCEPT !.pc = "yielded"]}
                    ELSE calls \ {c}
        /\ failed' = IF c.op = "request" /\ msg.event = "response/error"
                     THEN failed \cup {c.rid}
                     ELSE failed
  /\ UNCHANGED <<connection, closed, idc, lock, nid, wire, sent, served,
                 dialing, issued, serial, abandoned, closes, frame, wsout,
                 resp, httpout, bodyread, hclosed, hcall, ctx, mcls, mdata,
                 mout>>

\* The consumer pulls the next item: the generator resumes at `while True`.
Pull(c) ==
  /\ Quiet
  /\ c \in calls
  /\ c.pc = "yielded"
  /\ calls' = (calls \ {c}) \cup {[c EXCEPT !.pc = "recv"]}
  /\ UNCHANGED <<connection, closed, idc, lock, nid, chan, wire, sent,
                 served, dialing, last, issued, serial, abandoned, failed,
                 closes, frame, wsout, resp, httpout, bodyread, hclosed,
                 hcall, ctx, mcls, mdata, mout>>

\* A generator that tells the server to stop when it is closed (mutant).
Unsubscribed_Stop(w, c) == Append(w, Envelope(c))

\* What closing the generator at its `yield` writes to the connection: the
\* loop has no try/finally, so no statement runs and nothing is written.
Unsubscribed(w, c) == w

\* The consumer stops iterating: the generator is closed where it is
\* suspended, at `yield`. The ids of the streams given up, each with the
\* number of frames it had received, are remembered in `abandoned`.
Abandon(c) ==
  /\ Quiet
  /\ c \in calls
  /\ c.pc = "yielded"
  /\ calls' = calls \ {c}
  /\ wire' = Unsubscribed(wire, c)
  /\ sent' = [sent EXCEPT ![c.rid] = @ + Len(wire') - Len(wire)]
  /\ abandoned' = abandoned \cup {[rid |-> c.rid, nr |-> c.nr]}
  /\ UNCHANGED <<connection, closed, idc, lock, nid, chan, served, dialing,
                 last, issued, serial, failed, closes, frame, wsout, resp,
                 httpout, bodyread, hclosed, hcall, ctx, mcls, mdata, mout>>

\* The outcome reaches the caller: the awaiting coroutine resumes with the
\* value or the exception before anything else runs.
Resume ==
  /\ ~Quiet
  /\ last' = NoDone
  /\ UNCHANGED <<connection, closed, idc, lock, nid, chan, wire, sent,
                 served, calls, dialing, issued, serial, abandoned, failed,
                 closes, frame, wsout, resp, httpout, bodyread, hclosed,
                 hcall, ctx, mcls, mdata, mout>>

\* ------------------------------------------------------------ the server
\* The server answers the envelopes in the order they were written.
Pending == wire # <<>>
NextEnv == Head(wire)
Replies(i) == {OkFrame(i)} \cup {ErrFrame(i, c) : c \in ServerCodes}
NextReplies == IF Pending THEN Replies(NextEnv.id) ELSE {}

\* One reply frame for a single-reply envelope (none if the transport is gone).
ServerReply(f) ==
  /\ Quiet
  /\ Pending
  /\ ~NextEnv.stream
  /\ chan' = IF chan[NextEnv.h].up
             THEN [chan EXCEPT ![NextEnv.h].inbox = Append(@, f)]
             ELSE chan
  /\ wire' = Tail(wire)
  /\ UNCHANGED <<connection, closed, idc, lock, nid, sent, served, calls,
                 dialing, last, issued, serial, abandoned, failed, closes,
                 frame, wsout, resp, httpout, bodyread, hclosed, hcall, ctx,
                 mcls, mdata, mout>>

\* One more frame of a stream; an error frame is the stream's last, and
\* may follow any number of frames.
ServerPush(f) ==
  /\ Quiet
  /\ Pending
  /\ NextEnv.stream
  /\ served < MaxStreamFrames \/ f.event = "response/error"
  /\ chan[NextEnv.h].up
  /\ chan' = [chan EXCEPT ![NextEnv.h].inbox = Append(@, f)]
  /\ IF f.event = "response/error"
     THEN wire' = Tail(wire) /\ served' = 0
     ELSE served' = served + 1 /\ UNCHANGED wire
  /\ UNCHANGED <<connection, closed, idc, lock, nid, sent, calls, dialing,
                 last, issued, serial, abandoned, failed, closes, frame,
                 wsout, resp, httpout, bodyread, hclosed, hcall, ctx, mcls,
                 mdata, mout>>

\* The server has no more frames for the stream.
ServerEndStream ==
  /\ Quiet
  /\ Pending
  /\ NextEnv.stream
  /\ wire' = Tail(wire)
  /\ served' = 0
  /\ UNCHANGED <<connection, closed, idc, lock, nid, chan, sent, calls,
                 dialing, last, issued, serial, abandoned, failed, closes,
                 frame, wsout, resp, httpout, bodyread, hclosed, hcall, ctx,
                 mcls, mdata, mout>>

\* The peer or the network ends the connection.
Drop(h) ==
  /\ Quiet
  /\ chan[h].up
  /\ chan' = [chan EXCEPT ![h] = [up |-> FALSE, inbox |-> <<>>]]
  /\ UNCHANGED <<connection, closed, idc, lock, nid, wire, sent, served,
                 calls, dialing, last, issued, serial, abandoned, failed,
                 closes, frame, wsout, resp, httpout, bodyread, hclosed,
                 hcall, ctx, mcls, mdata, mout>>

Next ==
  \/ Connect
  \/ ConnectOk
  \/ \E kind \in ConnectFailures : ConnectFail(kind)
  \/ Close
  \/ \E data \in DataInputs : Request(data)
  \/ \E data \in DataInputs : Stream(data)
  \/ \E c \in calls : Send(c)
  \/ \E c \in calls : Recv(c)
  \/ \E c \in calls : Pull(c)
  \/ \E c \in calls : Abandon(c)
  \/ \E f \in NextReplies : ServerReply(f)
  \/ \E f \in NextReplies : ServerPush(f)
  \/ ServerEndStream
  \/ \E h \in Handles : Drop(h)
  \/ Resume

Spec == Init /\ [][Next]_vars

\* ------------------------------------------------------ SpecId: _next_id
\* The _next_id calls made or under way.
IdCalls == Len(issued) + Cardinality({t \in Tasks : nid[t].pc # "idle"})

\* A task calls _next_id and reaches `async with self._id_lock`.
NextIdCall(t) ==
  /\ nid[t].pc = "idle"
  /\ IdCalls < MaxNextIds
  /\ nid' = [nid EXCEPT ![t].pc = "wait"]
  /\ UNCHANGED <<connection, closed, idc, lock, chan, wire, sent, served,
                 calls, dialing, last, issued, serial, abandoned, failed,
                 closes, frame, wsout, resp, httpout, bodyread, hclosed,
                 hcall, ctx, mcls, mdata, mout>>

\* asyncio.Lock.acquire: granted only while no task holds the lock.
AcquireIdLock(t) ==
  /\ nid[t].pc = "wait"
  /\ lock = None
  /\ lock' = t
  /\ nid' = [nid EXCEPT ![t].pc = "held"]
  /\ UNCHANGED <<connection, closed, idc, chan, wire, sent, served, calls,
                 dialing, last, issued, serial, abandoned, failed, closes,
                 frame, wsout, resp, httpout, bodyread, hclosed, hcall, ctx,
                 mcls, mdata, mout>>

\* next(self._id_iter), evaluated while the lock is held.
TakeId(t) ==
  /\ nid[t].pc = "held"
  /\ lock = t
  /\ nid' = [nid EXCEPT ![t] = [pc |-> "taken", got |-> idc]]
  /\ idc' = CountNext(idc)
  /\ UNCHANGED <<connection, closed, lock, chan, wire, sent, served, calls,
                 dialing, last, issued, serial, abandoned, failed, closes,
                 frame, wsout, resp, httpout, bodyread, hclosed, hcall, ctx,
                 mcls, mdata, mout>>

\* Leaving `async with`: the lock is released and the value returned.
ReleaseId(t) ==
  /\ nid[t].pc = "taken"
  /\ lock = t
  /\ lock' = None
  /\ issued' = Append(issued, nid[t].got)
  /\ nid' = [nid EXCEPT ![t].pc = "idle"]
  /\ UNCHANGED <<connection, closed, idc, chan, wire, sent, served, calls,
                 dialing, last, serial, abandoned, failed, closes, frame,
                 wsout, resp, httpout, bodyread, hclosed, hcall, ctx, mcls,
                 mdata, mout>>

NextId ==
  \/ \E t \in Tasks : NextIdCall(t)
  \/ \E t \in Tasks : AcquireIdLock(t)
  \/ \E t \in Tasks : TakeId(t)
  \/ \E t \in Tasks : ReleaseId(t)

SpecId == Init /\ [][NextId]_vars

\* --------------------------------------- SpecWs: process_ws_response
\* The http_code values of the error frames.
WsCodes == {200, 400, 401, 403, 404, 500, 501, 503}
\* The ids of the frames (-1 is what the server uses when it has no id).
FrameIds == {-1, 0}

\* The messages process_ws_response is applied to.
Frames ==
  {Signal(ty) : ty \in {"closed", "error", "binary", "ping"}}
  \cup {Frame("text", TRUE, TRUE, "response/reading", FALSE, 0, FALSE, FALSE, i) :
          i \in FrameIds}
  \cup {Frame("text", FALSE, FALSE, "", FALSE, 0, FALSE, FALSE, NoVal)}
  \cup {Frame("text", TRUE, FALSE, "", FALSE, 0, FALSE, FALSE, i) : i \in FrameIds}
  \cup {OkFrame(i) : i \in FrameIds}
  \cup {Frame("text", TRUE, TRUE, "response/error", FALSE, 0, hd, hx, i) :
          hd \in BOOLEAN, hx \in BOOLEAN, i \in FrameIds}
  \cup {Frame("text", TRUE, TRUE, "response/error", TRUE, c, hd, hx, i) :
          c \in WsCodes, hd \in BOOLEAN, hx \in BOOLEAN, i \in FrameIds}

InitWs ==
  /\ NewSession
  /\ frame \in Frames
  /\ wsout = NoOut
  /\ resp = NoResp
  /\ httpout = NoOut
  /\ bodyread = FALSE
  /\ hclosed = FALSE
  /\ hcall = NoCall
  /\ ctx = NoCtx
  /\ mcls = "None"
  /\ mdata = Null
  /\ mout = NotMade

\* utils.process_ws_response(frame)
ApplyWs ==
  /\ wsout = NoOut
  /\ wsout' = ProcessWsResponse(frame)
  /\ UNCHANGED <<connection, closed, idc, lock, nid, chan, wire, sent,
                 served, calls, dialing, last, issued, serial, abandoned,
                 failed, closes, frame, resp, httpout, bodyread, hclosed,
                 hcall, ctx, mcls, mdata, mout>>

SpecWs == InitWs /\ [][ApplyWs]_vars

\* ------------------------------------ SpecHttp: wrap_and_raise_for_error
\* The statuses of the responses.
Statuses == {101, 200, 204, 301, 400, 403, 404, 500, 501, 502, 503}

Responses ==
  {Response(s, g, rd, b) :
     s \in Statuses, g \in BOOLEAN, rd \in BOOLEAN, b \in Bodies}

InitHttp ==
  /\ NewSession
  /\ frame = NoFrame
  /\ wsout = NoOut
  /\ resp \in Responses
  /\ httpout = NoOut
  /\ bodyread = FALSE
  /\ hclosed = FALSE
  /\ hcall = NoCall
  /\ ctx = NoCtx
  /\ mcls = "None"
  /\ mdata = Null
  /\ mout = NotMade

\* await errors.wrap_and_raise_for_error(resp)
ApplyHttp ==
  /\ httpout = NoOut
  /\ httpout' = WrapAndRaiseForError(resp)
  /\ bodyread' = TextAwaited(resp)
  /\ UNCHANGED <<connection, closed, idc, lock, nid, chan, wire, sent,
                 served, calls, dialing, last, issued, serial, abandoned,
                 failed, closes, frame, wsout, resp, hclosed, hcall, ctx,
                 mcls, mdata, mout>>

SpecHttp == InitHttp /\ [][ApplyHttp]_vars

\* ---------------------------------------- SpecCall: the HTTPClientV3 calls
\* How session.request ends: with a response, refused (ClientConnectorError,
\* a subclass of aiohttp.ClientError) or timed out (asyncio.TimeoutError).
NetOutcomes == {"ok", "ClientConnectorError", "TimeoutError"}

\* The failures that are subclasses of aiohttp.ClientError.
IsClientError(kind) == kind \in {"ClientConnectorError", "ClientPayloadError"}

\* An except clause that names aiohttp.ClientError only (mutant).
HttpCatches_ClientOnly(kind) == IsClientError(kind)

\* make_request / stream_request:
\* `except (aiohttp.ClientError, asyncio.TimeoutError) as e`
HttpCatches(kind) == IsClientError(kind) \/ kind = "TimeoutError"

\* What leaves the try block when its body raised exc:
\* `raise errors.SynseError from e` for a caught one, exc itself otherwise.
HttpSurface(o) ==
  IF o.st = "raise" /\ HttpCatches(o.exc) THEN Raise("SynseError", o.exc) ELSE o

\* `await resp.json()`: the read fails on a broken payload; an empty body
\* decodes to None; text that is no JSON raises json.JSONDecodeError.
ResponseJson(response) ==
  IF ~response.readable THEN Raise("ClientPayloadError", "none")
  ELSE IF response.body = "" THEN Ret(NoVal)
  ELSE IF JsonLoads(response.body).kind = "invalid"
  THEN Raise("JSONDecodeError", "none")
  ELSE Ret(NoVal)

\* `async for chunk in resp.content: yield json.loads(chunk)`, consumed to
\* its end: the number of items yielded, or the failure that ended it.
ResponseChunks(response) ==
  IF ~response.readable THEN Raise("ClientPayloadError", "none")
  ELSE IF response.body = "" THEN Ret(0)
  ELSE IF JsonLoads(response.body).kind = "invalid"
  THEN Raise("JSONDecodeError", "none")
  ELSE Ret(1)

\* The body of the try block once session.request has ended as `net` with
\* response r: the classifier, then the decoding of the body, which ends
\* as `decoded`.
HttpBody(net, r, decoded) ==
  IF net # "ok" THEN Raise(net, "none")
  ELSE LET w == WrapAndRaiseForError(r) IN
       IF w.st = "raise" THEN w ELSE decoded

\* HTTPClientV3.make_request: the classifier is called without a body.
\* On a closed session session.request raises RuntimeError.
HttpMakeRequest(net, r) ==
  /\ ~r.given
  /\ IF hclosed
     THEN /\ hcall' = [op |-> "make_request", net |-> "unsent",
                       out |-> Raise("RuntimeError", "none")]
          /\ resp' = NoResp
          /\ bodyread' = FALSE
     ELSE /\ hcall' = [op |-> "make_request", net |-> net,
                       out |-> HttpSurface(HttpBody(net, r, ResponseJson(r)))]
          /\ resp' = IF net = "ok" THEN r ELSE NoResp
          /\ bodyread' = (net = "ok")
  /\ UNCHANGED <<connection, closed, idc, lock, nid, chan, wire, sent,
                 served, calls, dialing, last, issued, serial, abandoned,
                 failed, closes, frame, wsout, httpout, hclosed, ctx, mcls,
                 mdata, mout>>

\* `async with self.session` that leaves the session as it was (mutant).
AsyncWithSession_Kept(c) == c

\* self.session.closed once the `async with self.session` block has been
\* left: ClientSession.__aexit__ closes the session, however the block ends
\* (c is self.session.closed when the block was entered).
AsyncWithSession(c) == TRUE

\* HTTPClientV3.stream_request, consumed to its end: the classifier is given
\* resp.reason as the body; `async with self.session` closes the session
\* when the block is left, however it is left.
HttpStreamRequest(net, r) ==
  /\ r.given
  /\ r.body = Reason(r.status)
  /\ IF hclosed
     THEN /\ hcall' = [op |-> "stream_request", net |-> "unsent",
                       out |-> Raise("RuntimeError", "none")]
          /\ resp' = NoResp
     ELSE /\ hcall' = [op |-> "stream_request", net |-> net,
                       out |-> HttpSurface(HttpBody(net, r, ResponseChunks(r)))]
          /\ resp' = IF net = "ok" THEN r ELSE NoResp
  /\ bodyread' = FALSE
  /\ hclosed' = AsyncWithSession(hclosed)
  /\ UNCHANGED <<connection, closed, idc, lock, nid, chan, wire, sent,
                 served, calls, dialing, last, issued, serial, abandoned,
                 failed, closes, frame, wsout, httpout, ctx, mcls, mdata,
                 mout>>

\* HTTPClientV3.close
HttpCloseCalled ==
  /\ hcall' = [op |-> "close", net |-> "unsent", out |-> Ret(NoVal)]
  /\ IF CloseGuard(hclosed)
     THEN /\ hclosed' = TRUE
          /\ closes' = Counted(closes)
     ELSE UNCHANGED <<hclosed, closes>>

\* A close call made by the client's user.
HttpClose ==
  /\ HttpCloseCalled
  /\ UNCHANGED <<connection, closed, idc, lock, nid, chan, wire, sent,
                 served, calls, dialing, last, issued, serial, abandoned,
                 failed, frame, wsout, resp, httpout, bodyread, ctx, mcls,
                 mdata, mout>>

\* The responses a server can give to the two calls.
CallResponses ==
  {Response(s, FALSE, rd, b) : s \in Statuses, rd \in BOOLEAN, b \in Bodies}
  \cup {Response(s, TRUE, rd, Reason(s)) : s \in Statuses, rd \in BOOLEAN}

NextCall ==
  \/ \E net \in NetOutcomes, r \in CallResponses : HttpMakeRequest(net, r)
  \/ \E net \in NetOutcomes, r \in CallResponses : HttpStreamRequest(net, r)
  \/ HttpClose

SpecCall == Init /\ [][NextCall]_vars

\* ------------------------------- SpecCtx: the clients used in `async with`
\* The two clients that can be used as an async context manager.
Clients == {"ws", "http"}

InitCtx ==
  /\ NewSession
  /\ frame = NoFrame
  /\ wsout = NoOut
  /\ resp = NoResp
  /\ httpout = NoOut
  /\ bodyread = FALSE
  /\ hclosed = FALSE
  /\ hcall = NoCall
  /\ ctx \in {[NoCtx EXCEPT !.client = k] : k \in Clients}
  /\ mcls = "None"
  /\ mdata = Null
  /\ mout = NotMade

\* Where the block of client k is.
At(k, p) == ctx.client = k /\ ctx.pc = p

\* WebsocketClientV3.__aenter__ up to the end of its first step:
\* `await self.connect()`, which dials or completes at once.
WsAEnter ==
  /\ At("ws", "out")
  /\ Busy = 0
  /\ ConnectCalled
  /\ ctx' = [ctx EXCEPT !.pc = "entering", !.nconnect = @ + 1,
                        !.wasClosed = closed]
  /\ UNCHANGED <<connection, closed, idc, lock, nid, chan, wire, sent,
                 served, calls, issued, abandoned, failed, closes, frame,
                 wsout, resp, httpout, bodyread, hclosed, hcall, mcls, mdata,
                 mout>>

\* The connect call of __aenter__ has completed: `return self` and the body
\* starts, or its exception leaves __aenter__ and with it the `async with`
\* statement, whose body and __aexit__ then never run.
WsEntered ==
  /\ At("ws", "entering")
  /\ last.op = "connect"
  /\ ctx' = [ctx EXCEPT !.pc = IF last.st = "ret" THEN "body" ELSE "failed",
                        !.exc = IF last.st = "raise" THEN last.exc ELSE "none"]
  /\ last' = NoDone
  /\ UNCHANGED <<connection, closed, idc, lock, nid, chan, wire, sent,
                 served, calls, dialing, issued, serial, abandoned, failed,
                 closes, frame, wsout, resp, httpout, bodyread, hclosed,
                 hcall, mcls, mdata, mout>>

\* HTTPClientV3.__aenter__: `return self`; the body starts.
HttpAEnter ==
  /\ At("http", "out")
  /\ ctx' = [ctx EXCEPT !.pc = "body"]
  /\ UNCHANGED <<connection, closed, idc, lock, nid, chan, wire, sent,
                 served, calls, dialing, last, issued, serial, abandoned,
                 failed, closes, frame, wsout, resp, httpout, bodyread,
                 hclosed, hcall, mcls, mdata, mout>>

\* The body of the block is left, at its end or by an exception.
BodyEnds(raised) ==
  /\ ctx.pc = "body"
  /\ Quiet
  /\ ctx' = [ctx EXCEPT !.pc = "exiting", !.raised = raised]
  /\ UNCHANGED <<connection, closed, idc, lock, nid, chan, wire, sent,
                 served, calls, dialing, last, issued, serial, abandoned,
                 failed, closes, frame, wsout, resp, httpout, bodyread,
                 hclosed, hcall, mcls, mdata, mout>>

\* __aexit__ that closes only after a body that completed (mutant).
ExitCloses_OnSuccess(raised) == ~raised

\* WebsocketClientV3.__aexit__: `await self.close()`, whatever exc_type is.
ExitCloses(raised) == TRUE

\* WebsocketClientV3.__aexit__
WsAExit ==
  /\ At("ws", "exiting")
  /\ IF ExitCloses(ctx.raised)
     THEN /\ CloseCalled
          /\ ctx' = [ctx EXCEPT !.pc = "exited", !.nclose = @ + 1]
     ELSE /\ ctx' = [ctx EXCEPT !.pc = "exited"]
          /\ UNCHANGED <<serial, last, closed, chan, closes>>
  /\ UNCHANGED <<connection, idc, lock, nid, wire, sent, served, calls,
                 dialing, issued, abandoned, failed, frame, wsout, resp,
                 httpout, bodyread, hclosed, hcall, mcls, mdata, mout>>

\* HTTPClientV3.__aexit__: `await self.close()`
HttpAExit ==
  /\ At("http", "exiting")
  /\ HttpCloseCalled
  /\ ctx' = [ctx EXCEPT !.pc = "exited", !.nclose = @ + 1]
  /\ UNCHANGED <<connection, closed, idc, lock, nid, chan, wire, sent,
                 served, calls, dialing, last, issued, serial, abandoned,
                 failed, frame, wsout, resp, httpout, bodyread, mcls, mdata,
                 mout>>

\* The block of a WebsocketClientV3 is at one of the places ps.
WsAt(ps) == ctx.client = "ws" /\ ctx.pc \in ps

\* `await client.close()` called by the user of a WebsocketClientV3.
WsCloseByHand ==
  /\ CloseCalled
  /\ ctx' = [ctx EXCEPT !.nhand = Counted(@)]
  /\ UNCHANGED <<connection, idc, lock, nid, wire, sent, served, calls,
                 dialing, issued, abandoned, failed, frame, wsout, resp,
                 httpout, bodyread, hclosed, hcall, mcls, mdata, mout>>

\* `await client.close()` called by the user of an HTTPClientV3.
HttpCloseByHand ==
  /\ HttpCloseCalled
  /\ ctx' = [ctx EXCEPT !.nhand = Counted(@)]
  /\ UNCHANGED <<connection, closed, idc, lock, nid, chan, wire, sent,
                 served, calls, dialing, last, issued, serial, abandoned,
                 failed, frame, wsout, resp, httpout, bodyread, mcls, mdata,
                 mout>>

\* What the user of a WebsocketClientV3 does before the block (connect or
\* close by hand) and in its body (requests, a close by hand), and what the
\* server and the network do meanwhile. The outcome of the connect call of
\* __aenter__ goes to __aenter__ (WsEntered).
WsUse ==
  \/ WsAt({"out", "body"}) /\ Connect
  \/ WsAt({"out", "body"}) /\ WsCloseByHand
  \/ WsAt({"out", "entering", "body"}) /\ ConnectOk
  \/ WsAt({"out", "entering", "body"}) /\
       \E kind \in ConnectFailures : ConnectFail(kind)
  \/ WsAt({"body"}) /\ \E data \in DataInputs : Request(data)
  \/ WsAt({"body"}) /\ \E c \in calls : Send(c)
  \/ WsAt({"body"}) /\ \E c \in calls : Recv(c)
  \/ WsAt({"body"}) /\ \E f \in NextReplies : ServerReply(f)
  \/ WsAt({"body"}) /\ \E h \in Handles : Drop(h)
  \/ WsAt({"out", "body", "exited", "failed"}) /\ Resume

\* What the user of an HTTPClientV3 does in the body of the block.
HttpUse ==
  \/ At("http", "body") /\
       \E net \in NetOutcomes, r \in CallResponses : HttpMakeRequest(net, r)
  \/ At("http", "body") /\
       \E net \in NetOutcomes, r \in CallResponses : HttpStreamRequest(net, r)
  \/ At("http", "body") /\ HttpCloseByHand

NextCtx ==
  \/ WsAEnter
  \/ WsEntered
  \/ HttpAEnter
  \/ \E raised \in BOOLEAN : BodyEnds(raised)
  \/ WsAExit
  \/ HttpAExit
  \/ WsUse
  \/ HttpUse

SpecCtx == InitCtx /\ [][NextCtx]_vars

\* --------------------------------- SpecModels: models.py (make_response)
\* A decoded JSON value: an object is the sequence of its <<key, value>>
\* pairs in the order of the text, a list the sequence of its elements.
Dict(items) == [kind |-> "dict", s |-> "", items |-> items]
List(items) == [kind |-> "list", s |-> "", items |-> items]
Str(x) == [kind |-> "str", s |-> x, items |-> <<>>]

\* Python's None as the value of an attribute.
PyNone == "None"

\* The response classes of the model: none (no mapping), Status, Version.
ResponseClasses == {"None", "Status", "Version"}

\* The attributes the __init__ of a response class sets to None before it
\* calls BaseResponse.__init__.
Declared(response_class) ==
  IF response_class = "Status" THEN {"status", "timestamp"}
  ELSE IF response_class = "Version" THEN {"api_version", "version"}
  ELSE {}

\* Names every Python object answers hasattr with True for; of these
\* __class__ cannot be set to a string.
ObjectAttrs == {"__class__", "__doc__"}

\* hasattr(self, k) inside BaseResponse.__init__: the declared fields, _data
\* (set on the line before) and what the instance inherits from object.
HasAttr(response_class, k) ==
  k \in Declared(response_class) \cup {"_data"} \cup ObjectAttrs

\* The keys whose value is converted with iso8601.parse_date.
TimeFields == {"timestamp", "created", "updated"}

\* The RFC3339 texts parse_date accepts, and the date-time it makes of one.
GoodDate == "2019-04-22T13:30:00Z"
BadDate == "not a date"
IsoDates == {GoodDate}
ParseDate(v) == "datetime(" \o v \o ")"

\* An instance: its class, its attributes other than _data, and _data.
Instance(response_class, attrs, data) ==
  [cls |-> response_class, attrs |-> attrs, data |-> data]
Built(inst) == [st |-> "ret", exc |-> "none", inst |-> inst]
BuildRaised(e) ==
  [st |-> "raise", exc |-> e, inst |-> Instance("None", <<>>, Null)]

\* setattr(self, k, v)
SetAttr(inst, k, v) ==
  IF k = "_data" THEN [inst EXCEPT !.data = Str(v)]
  ELSE [inst EXCEPT !.attrs =
          [a \in DOMAIN inst.attrs \cup {k} |->
             IF a = k THEN v ELSE inst.attrs[a]]]

\* The loop of BaseResponse.__init__ from the i-th item on.
RECURSIVE SetItems(_, _, _)
SetItems(inst, items, i) ==
  IF i > Len(items) THEN Built(inst)
  ELSE LET k == items[i][1]
           v == items[i][2]
       IN
       IF ~HasAttr(inst.cls, k) THEN SetItems(inst, items, i + 1)
       ELSE IF k \in TimeFields /\ v \notin IsoDates THEN BuildRaised("ParseError")
       ELSE IF k = "__class__" THEN BuildRaised("TypeError")
       ELSE SetItems(SetAttr(inst, k, IF k \in TimeFields THEN ParseDate(v) ELSE v),
                     items, i + 1)

\* response_class(data): the subclass sets its fields to None, then
\* BaseResponse.__init__ keeps data as _data and walks data.items(), which
\* only a dict has.
BaseResponseInit(response_class, data) ==
  IF data.kind # "dict" THEN BuildRaised("AttributeError")
  ELSE SetItems(Instance(response_class,
                         [a \in Declared(response_class) |-> PyNone], data),
                data.items, 1)

\* A comprehension that gives the instances in reverse (mutant).
Comprehension_Reversed(response_class, items) ==
  [i \in 1..Len(items) |->
     BaseResponseInit(response_class, items[Len(items) + 1 - i])]

\* [response_class(item) for item in response]
Comprehension(response_class, items) ==
  [i \in 1..Len(items) |-> BaseResponseInit(response_class, items[i])]

\* What make_response gives: the value it was given (same), one instance or
\* a list of instances, or the exception of the first construction to fail.
Made(kind, val, insts) ==
  [st |-> "ret", exc |-> "none", kind |-> kind, val |-> val, insts |-> insts]
MakeRaised(e) == [NotMade EXCEPT !.st = "raise", !.exc = e]

\* models.make_response
MakeResponse(response_class, response) ==
  IF response_class = "None" THEN Made("same", response, <<>>)
  ELSE IF response.kind = "list"
  THEN LET bs == Comprehension(response_class, response.items)
           bad == {i \in 1..Len(bs) : bs[i].st = "raise"}
       IN
       IF bad # {}
       THEN MakeRaised(bs[CHOOSE i \in bad : \A j \in bad : i <= j].exc)
       ELSE Made("list", Null, [i \in 1..Len(bs) |-> bs[i].inst])
  ELSE LET b == BaseResponseInit(response_class, response) IN
       IF b.st = "raise" THEN MakeRaised(b.exc)
       ELSE Made("instance", Null, <<b.inst>>)

\* The keys of the payloads and the values each comes with.
Keys == {"status", "timestamp", "unknown_field", "_data", "__doc__", "__class__"}
ValuesOf(k) == IF k = "timestamp" THEN {GoodDate, BadDate}
               ELSE IF k = "status" THEN {"ok"}
               ELSE {"foo"}
AllValues == UNION {ValuesOf(k) : k \in Keys}

\* The payloads: up to MaxKeys distinct keys, in any order.
KeySeqs ==
  UNION {{ks \in [1..n -> Keys] : \A i, j \in 1..n : i # j => ks[i] # ks[j]} :
           n \in 0..MaxKeys}
Payloads ==
  UNION {{Dict([i \in 1..Len(ks) |-> <<ks[i], vs[i]>>]) :
            vs \in {v \in [1..Len(ks) -> AllValues] :
                      \A i \in 1..Len(ks) : v[i] \in ValuesOf(ks[i])}} :
           ks \in KeySeqs}

\* The elements of the lists: three payloads and a string.
ListItems ==
  {Dict(<<<<"status", "ok">>, <<"timestamp", GoodDate>>>>),
   Dict(<<<<"unknown_field", "foo">>>>),
   Dict(<<<<"timestamp", BadDate>>>>),
   Str("a")}
Lists == UNION {{List(xs) : xs \in [1..n -> ListItems]} : n \in 0..MaxItems}

\* The decoded values make_response is given.
Decoded == Payloads \cup Lists \cup {Str("a"), Null}

InitModels ==
  /\ NewSession
  /\ frame = NoFrame
  /\ wsout = NoOut
  /\ resp = NoResp
  /\ httpout = NoOut
  /\ bodyread = FALSE
  /\ hclosed = FALSE
  /\ hcall = NoCall
  /\ ctx = NoCtx
  /\ mcls \in ResponseClasses
  /\ mdata \in Decoded
  /\ mout = NotMade

\* models.make_response(mcls, mdata)
ApplyModels ==
  /\ mout = NotMade
  /\ mout' = MakeResponse(mcls, mdata)
  /\ UNCHANGED <<connection, closed, idc, lock, nid, chan, wire, sent,
                 served, calls, dialing, last, issued, serial, abandoned,
                 failed, closes, frame, wsout, resp, httpout, bodyread,
                 hclosed, hcall, ctx, mcls, mdata>>

SpecModels == InitModels /\ [][ApplyModels]_vars

\* ================================================================ claims

\* C1: for any number N of concurrent _next_id calls on one session and any
\* interleaving of them, the values returned are exactly 0 .. N-1: none is
\* returned twice and none is skipped.
NextIdsExact ==
  /\ {issued[i] : i \in 1..Len(issued)} = 0..(Len(issued) - 1)
  /\ \A i, j \in 1..Len(issued) : issued[i] = issued[j] => i = j

\* Every call allowed has returned, and calls did contend for the lock: the
\* last value went to a task that had to wait for the other's release.
NextIdsContended ==
  /\ Len(issued) = MaxNextIds
  /\ \A t \in Tasks : nid[t].pc = "idle" /\ nid[t].got # NoVal
  /\ \E t \in Tasks : nid[t].got = MaxNextIds - 1

\* C2: request or stream_request on a session whose connect never succeeded
\* (the handle is None) fails with RuntimeError from the connection property;
\* nothing is written or read, no id is used and no connect is attempted.
NotConnectedFails ==
  [][connection = None =>
       /\ calls' = calls
       /\ wire' = wire
       /\ sent' = sent
       /\ idc' = idc
       /\ (last' # last /\ last'.op \in Exchanges =>
             /\ last'.st = "raise"
             /\ last'.exc = "RuntimeError"
             /\ last'.nw = 0 /\ last'.nr = 0 /\ last'.nc = 0
             /\ dialing' = dialing
             /\ connection' = None
             /\ chan' = chan)]_vars

\* An exchange has failed with RuntimeError on a session never connected.
NotConnectedSeen ==
  /\ connection = None
  /\ last.op \in Exchanges
  /\ last.st = "raise"
  /\ last.exc = "RuntimeError"

\* C3: once connect has succeeded, a later connect call returns the handle
\* the session holds and makes no connection attempt; when the calls are
\* made in sequence the handle stays the one the first call returned.
ConnectIdempotent ==
  [][connection # None =>
       /\ dialing' <= dialing
       /\ (last' # last /\ last'.op = "connect" /\ last'.nc = 0 =>
             last' = Done(ConnectCall(0), Ret(connection)))
       /\ (serial' => /\ connection' = connection
                      /\ dialing' = 0
                      /\ (last' # last /\ last'.op = "connect" =>
                            last' = Done(ConnectCall(0), Ret(connection'))))
  ]_vars

\* A connect made in sequence after a successful one has returned the handle
\* without dialling.
SecondConnectSeen ==
  /\ serial
  /\ connection # None
  /\ last = Done(ConnectCall(0), Ret(connection))

\* C4: a failed connect attempt surfaces as SynseError wrapping the
\* underlying connect failure, and leaves the session unconnected (when the
\* calls are made in sequence the handle is still None).
ConnectFailureWrapped ==
  last.op = "connect" /\ last.st = "raise" /\ last.nc = 1 =>
    /\ last.exc = "SynseError"
    /\ last.cause \in ConnectFailures
    /\ (serial => connection = None)

\* A connect attempt that timed out has ended with asyncio.TimeoutError.
ConnectTimeoutEscapes ==
  /\ last.op = "connect"
  /\ last.nc = 1
  /\ last.st = "raise"
  /\ last.exc = "TimeoutError"
  /\ connection = None

\* C5: a request call on a connected session that completes, by returning a
\* payload or by raising the failure classified from its reply, has allocated
\* exactly one id, written exactly one envelope and consumed exactly one
\* frame; its envelope was written once only (no retry, no resend).
RequestOneOfEach ==
  last.op = "request"
  /\ (last.st = "ret" \/ (last.st = "raise" /\ last.exc \in SynseFamily)) =>
    /\ last.na = 1
    /\ last.nw = 1
    /\ last.nr = 1
    /\ sent[last.rid] = 1
    /\ \A c \in calls : c.rid # last.rid

\* A request has failed with the failure classified from its reply.
RequestFailedOnce ==
  /\ last.op = "request"
  /\ last.st = "raise"
  /\ last.exc = "NotFound"
  /\ last.rid = MaxIds - 1

\* C6: when the caller has kept all calls apart (each completes before the
\* next starts, no stream is open) and the server answers each request with
\* one frame in send order, a request returns the frame carrying its own id.
SerialRequestsMatch ==
  serial /\ last.op = "request" /\ last.st = "ret" => last.val = last.rid

\* A request that was not the session's first has returned in a serial run.
SerialSecondReturned ==
  /\ serial
  /\ last.op = "request"
  /\ last.st = "ret"
  /\ last.rid > 0

\* C7: a frame received is given to whichever call reads next, with no
\* comparison of ids: every read takes the oldest frame of the connection.
\* With two calls in flight this hands a call the reply to the other.
ReaderGetsOldest ==
  [][\A h \in Handles :
       chan[h].up /\ chan'[h].up /\ Len(chan'[h].inbox) < Len(chan[h].inbox) =>
         /\ chan'[h].inbox = Tail(chan[h].inbox)
         /\ last' # last
         /\ last'.op \in Exchanges
         /\ (last'.st \in {"ret", "yield"} =>
               last'.val = Head(chan[h].inbox).id)]_vars

\* A request has returned the frame of another request still awaiting it.
WrongPayloadSeen ==
  /\ last.op = "request"
  /\ last.st = "ret"
  /\ last.val # last.rid
  /\ \E c \in calls : c.op = "request" /\ c.pc = "recv" /\ c.rid = last.val

\* C8: a transport-level exception raised while request or stream_request
\* sends the envelope or receives a frame surfaces as SynseError; the
\* transport's own exception type never leaves the call.
TransportErrorsWrapped ==
  last.op \in Exchanges /\ last.st = "raise" => last.exc \notin TransportNative

\* A request whose send found the transport closing has ended with
\* ConnectionResetError.
ResetEscapes ==
  /\ last.op = "request"
  /\ last.st = "raise"
  /\ last.exc = "ConnectionResetError"
  /\ last.nw = 0

\* C9: for a text frame whose event is response/error, process_ws_response
\* raises InvalidInput for http_code 400, NotFound for 404, and the generic
\* SynseError (no subclass of it) for every other code, 500 included.
WsErrorClassified ==
  /\ wsout # NoOut
  /\ frame.type = "text" /\ frame.json /\ frame.hasEvent
  /\ frame.event = "response/error" /\ frame.hasCode
  => /\ wsout.st = "raise"
     /\ frame.code = 400 => wsout.exc = "InvalidInput"
     /\ frame.code = 404 => wsout.exc = "NotFound"
     /\ frame.code \notin {400, 404} => wsout.exc = "SynseError"

\* An error frame with http_code 500 was raised as the generic SynseError.
Ws500Generic ==
  /\ frame.event = "response/error"
  /\ frame.hasCode
  /\ frame.code = 500
  /\ wsout.st = "raise"
  /\ wsout.exc = "SynseError"

\* C10: wrap_and_raise_for_error raises InvalidInput with message "x" for
\* 400 with body {"context":"x"}, NotFound likewise for 404, ServerError for
\* 500 (with that body, and with any body that is undecodable or an object),
\* the generic SynseError for 403, and nothing for 200.
HttpErrorClassified ==
  httpout # NoOut =>
    /\ resp.status = 400 /\ BodyOf(resp) = CtxBody =>
         httpout = RaiseMsg("InvalidInput", "ClientResponseError", "x")
    /\ resp.status = 404 /\ BodyOf(resp) = CtxBody =>
         httpout = RaiseMsg("NotFound", "ClientResponseError", "x")
    /\ resp.status = 500 /\ BodyOf(resp) = CtxBody =>
         httpout = RaiseMsg("ServerError", "ClientResponseError", "x")
    /\ resp.status = 500 /\ BodyOf(resp) \notin {"[]", "\"s\""} =>
         httpout.st = "raise" /\ httpout.exc = "ServerError"
    /\ resp.status = 403 => httpout = Raise("SynseError", "ClientResponseError")
    /\ resp.status = 200 => httpout = Ret(NoVal)

\* A 500 response whose text was read from the response raised ServerError.
Http500Seen ==
  /\ resp.status = 500
  /\ ~resp.given
  /\ resp.readable
  /\ resp.body = CtxBody
  /\ httpout = RaiseMsg("ServerError", "ClientResponseError", "x")

HttpNon2xxRaises ==
  httpout # NoOut =>
    /\ resp.status \notin 200..299 =>
         httpout.st = "raise" /\ httpout.exc \in SynseFamily
    /\ httpout.st = "ret" => resp.status \in 200..299

\* A 301 response made wrap_and_raise_for_error return normally.
Http301Returns ==
  /\ resp.status = 301
  /\ httpout = Ret(NoVal)

\* C13: on a 2xx response wrap_and_raise_for_error returns normally, without
\* raising and without reading the body of the response.
Http2xxNoRead ==
  httpout # NoOut /\ resp.status \in 200..299 =>
    httpout = Ret(NoVal) /\ ~bodyread

\* C13 as amended: on a 2xx response wrap_and_raise_for_error returns
\* normally without raising; it reads the text of the response exactly when
\* the caller passed no body.
Http2xxReadsUnlessGiven ==
  httpout # NoOut /\ resp.status \in 200..299 =>
    /\ httpout = Ret(NoVal)
    /\ bodyread <=> ~resp.given

\* A 200 response passed without a body was read and returned normally.
Http200BodyRead ==
  /\ resp.status = 200
  /\ ~resp.given
  /\ bodyread
  /\ httpout = Ret(NoVal)

\* C14: for a non-2xx response whose body is not JSON, or not readable at
\* all, wrap_and_raise_for_error raises the typed failure of the status with
\* a fallback message built from the raw body or the reason phrase, and no
\* secondary parse error.
HttpFallbackMessage ==
  LET raw == IF resp.given \/ resp.readable THEN resp.body
             ELSE "reason " \o ToString(resp.status)
  IN
  httpout # NoOut /\ resp.status \notin 200..299
  /\ (raw \in {"oops", ""} \/ (~resp.given /\ ~resp.readable)) =>
    /\ httpout.st = "raise"
    /\ httpout.exc = (IF resp.status = 400 THEN "InvalidInput"
                      ELSE IF resp.status = 404 THEN "NotFound"
                      ELSE IF resp.status = 500 THEN "ServerError"
                      ELSE "SynseError")
    /\ httpout.msg \in {raw, "error: " \o raw}

\* A 403 response with a body that is no JSON was raised without a message.
Http403NoFallback ==
  /\ resp.status = 403
  /\ resp.given
  /\ resp.body = "oops"
  /\ httpout = Raise("SynseError", "ClientResponseError")

\* C15: every failure raised, for every status (mapped or not), carries the
\* server's context string when the error body has one, and an empty message
\* when no context is obtainable.
HttpMessageIsContext ==
  httpout.st = "raise" /\ httpout.exc \in SynseFamily =>
    /\ BodyOf(resp) = CtxBody => httpout.msg = "x"
    /\ BodyOf(resp) = "{}" => httpout.msg = ""

\* A 503 response whose body has a context was raised without a message.
Http503ContextDropped ==
  /\ resp.status = 503
  /\ ~resp.given
  /\ resp.readable
  /\ resp.body = CtxBody
  /\ httpout = Raise("SynseError", "ClientResponseError")

\* C16: a connection-level failure (refused connection, timeout) during
\* HTTPClientV3.make_request or stream_request is caught at the call site and
\* raised as the generic SynseError with the original failure as its cause;
\* the transport's own exception does not leave the call.
HttpTransportWrapped ==
  /\ hcall.net \in {"ClientConnectorError", "TimeoutError"} =>
       hcall.out = Raise("SynseError", hcall.net)
  /\ hcall.out.exc \notin
       {"ClientConnectorError", "ClientPayloadError", "TimeoutError"}

\* A stream_request whose connection timed out has ended with SynseError
\* caused by the timeout.
HttpTimeoutWrapped ==
  /\ hcall.op = "stream_request"
  /\ hcall.net = "TimeoutError"
  /\ hcall.out = Raise("SynseError", "TimeoutError")

\* C17: a frame that is a connection-lifecycle signal (closed, transport
\* error, any kind other than text) makes process_ws_response raise the
\* generic SynseError; a text frame whose event is not response/error is
\* returned as the whole decoded message, with no failure.
WsSignalsAndPayloads ==
  wsout # NoOut =>
    /\ frame.type # "text" => wsout.st = "raise" /\ wsout.exc = "SynseError"
    /\ (frame.type = "text" /\ frame.json /\ frame.hasEvent
        /\ frame.event # "response/error") =>
          /\ wsout.st = "ret"
          /\ wsout.val = frame.id
          /\ wsout.msg = frame.event

\* A reading frame was returned with its id and event.
WsReadingReturned ==
  /\ frame.type = "text"
  /\ frame.event = "response/reading"
  /\ frame.id = 0
  /\ wsout.st = "ret"
  /\ wsout.val = 0

\* C18: for every received frame, text that is no JSON, text without an
\* event key and an error frame without http_code included,
\* process_ws_response returns the decoded message or raises an exception of
\* the SynseError family, never one of another type.
WsOnlySynseErrors ==
  wsout # NoOut =>
    wsout.st = "ret" \/ (wsout.st = "raise" /\ wsout.exc \in SynseFamily)

\* A text frame that is no JSON has ended with json.JSONDecodeError.
WsBadJsonEscapes ==
  /\ frame.type = "text"
  /\ ~frame.json
  /\ wsout = Raise("JSONDecodeError", "none")

\* C19: a streaming call against a server that sends a finite sequence of k
\* frames with no error frame yields exactly k items and then the sequence
\* terminates normally: once the frames are sent and taken the call is over,
\* not suspended in receive.
StreamEndsAfterFrames ==
  \A c \in calls :
    ~(/\ c.op = "stream"
      /\ c.pc = "recv"
      /\ c.nr >= 1
      /\ \A j \in DOMAIN sent : j # c.rid => sent[j] = 0
      /\ wire = <<>>
      /\ chan[c.ws].up
      /\ chan[c.ws].inbox = <<>>)

\* C19 as amended: a streaming call alone on its session yields one item per
\* frame the server sent, each the frame of its own id, and never terminates
\* by itself: it ends by raising or when the consumer stops pulling, and
\* after the last frame the next pull stays suspended in receive.
StreamOpenEnded ==
  /\ last.op = "stream" => last.st # "ret"
  /\ (last.op = "stream" /\ last.st = "yield"
      /\ \A j \in DOMAIN sent : j # last.rid => sent[j] = 0) =>
        last.val = last.rid
  /\ \A c \in calls :
       (/\ c.op = "stream"
        /\ c.pc \in {"recv", "yielded"}
        /\ \A j \in DOMAIN sent : j # c.rid => sent[j] = 0
        /\ wire # <<>>
        /\ chan[c.ws].up) =>
          c.nr + Len(chan[c.ws].inbox) = served

\* A stream has yielded every frame of a finished sequence and is suspended
\* in receive with nothing left to come.
StreamSuspendedAfterItems ==
  \E c \in calls :
    /\ c.op = "stream"
    /\ c.pc = "recv"
    /\ c.nr = MaxStreamFrames
    /\ \A j \in DOMAIN sent : j # c.rid => sent[j] = 0
    /\ wire = <<>>
    /\ chan[c.ws].up
    /\ chan[c.ws].inbox = <<>>

\* C20: in a streaming call alone on its session, when an error frame comes
\* after k successful frames the consumer has already received those k items
\* (nothing is left in front of the error frame), and the pull that reads
\* the error frame raises the failure classified from it.
StreamErrorAfterItems ==
  [][\A c \in calls :
       (/\ c.op = "stream"
        /\ c.pc = "recv"
        /\ c \notin calls'
        /\ last' # last
        /\ last'.st = "raise"
        /\ chan[c.ws].up
        /\ \A j \in DOMAIN sent : j # c.rid => sent[j] = 0) =>
          LET q == chan[c.ws].inbox IN
          /\ q # <<>>
          /\ Len(q) = 1
          /\ Head(q).event = "response/error"
          /\ Head(q).id = c.rid
          /\ chan'[c.ws].inbox = <<>>
          /\ last'.op = "stream"
          /\ last'.rid = c.rid
          /\ last'.nr = c.nr + 1
          /\ c.nr <= MaxStreamFrames
          /\ Head(q).code = 404 => last'.exc = "NotFound"
          /\ Head(q).code = 400 => last'.exc = "InvalidInput"
          /\ Head(q).code \notin {400, 404} => last'.exc = "SynseError"]_vars

\* A stream has raised NotFound on the pull after MaxStreamFrames items.
StreamRaisedAfterItems ==
  /\ last.op = "stream"
  /\ last.st = "raise"
  /\ last.exc = "NotFound"
  /\ last.nr = MaxStreamFrames + 1
  /\ \A j \in DOMAIN sent : j # last.rid => sent[j] = 0

\* C21: over the whole life of one stream_request (any number of items
\* pulled, then the consumer stops), exactly one message, the request
\* envelope, is written to the connection: a stream that has sent, whether it
\* is waiting for a frame, suspended at an item or given up, has written one
\* envelope, and no other message carries its id.
StreamWritesOnce ==
  /\ \A c \in calls :
       c.op = "stream" /\ c.pc \in {"recv", "yielded"} =>
         c.nw = 1 /\ sent[c.rid] = 1
  /\ \A a \in abandoned : sent[a.rid] = 1
  /\ last.op = "stream" /\ last.nr > 0 => last.nw = 1 /\ sent[last.rid] = 1

\* A stream was given up after its consumer had pulled two items.
StreamAbandonedAfterTwo ==
  \E a \in abandoned : a.nr = 2 /\ sent[a.rid] = 1

\* The ids of the streams whose consumer stopped iterating.
AbandonedIds == {a.rid : a \in abandoned}

\* C22: after a stream_request was started and then given up by its consumer,
\* the session left open, a later request on the session can be handed a
\* frame the server sent for the stream: a request that reads while such a
\* frame is the oldest of the connection completes with that frame, whose id
\* is the stream's and not its own.
StrayFrameTaken ==
  [][\A c \in calls :
       (/\ c.op = "request"
        /\ c.pc = "recv"
        /\ ~closed
        /\ chan[c.ws].up
        /\ chan[c.ws].inbox # <<>>
        /\ Head(chan[c.ws].inbox).id \in AbandonedIds
        /\ c \notin calls') =>
         /\ last'.op = "request"
         /\ last'.rid = c.rid
         /\ chan'[c.ws].inbox = Tail(chan[c.ws].inbox)
         /\ (Head(chan[c.ws].inbox).event # "response/error" =>
               /\ last'.st = "ret"
               /\ last'.val = Head(chan[c.ws].inbox).id
               /\ last'.val # c.rid)]_vars

\* A request has returned a frame carrying the id of a stream given up
\* earlier, on a session that is still open.
RequestGotStreamFrame ==
  /\ ~closed
  /\ last.op = "request"
  /\ last.st = "ret"
  /\ last.val \in AbandonedIds
  /\ last.val # last.rid

\* C23: Closed is terminal: once close() has been called on a session, the
\* session stays closed, no later connect call establishes a connection
\* (self._connection keeps the value it had, a connect that returns gives
\* that old handle without dialling) and no connection of the session is
\* live again.
ClosedIsTerminal ==
  [][closed =>
       /\ closed'
       /\ connection' = connection
       /\ \A h \in Handles : ~chan'[h].up
       /\ (last' # last /\ last'.op = "connect" /\ last'.st = "ret" =>
             last'.val = connection /\ last'.nc = 0)]_vars

\* A connect call made on a session already closed has completed, without
\* dialling.
ConnectAfterCloseSeen ==
  /\ closed
  /\ last.op = "connect"
  /\ last.nc = 0

RequestWaitsForFrame ==
  [][\A c \in calls :
       (/\ c.op = "request"
        /\ c.pc = "recv"
        /\ chan[c.ws].up
        /\ chan[c.ws].inbox = <<>>) =>
         /\ c \in calls'
         /\ (last' # last => last'.rid # c.rid)]_vars

\* A request is suspended in receive on a live connection with no frame
\* queued and nothing left for the server to answer: no reply will come.
RequestLeftWaiting ==
  /\ wire = <<>>
  /\ \E c \in calls :
       /\ calls = {c}
       /\ c.op = "request"
       /\ c.pc = "recv"
       /\ c.nw = 1
       /\ chan[c.ws].up
       /\ chan[c.ws].inbox = <<>>

\* C26: a client used as an async context manager calls connect exactly once
\* on entry (WebsocketClientV3; HTTPClientV3 calls none) and close once on
\* exit, so that once the block has been left, its body having completed or
\* raised, the client's session is closed.
ContextClosesSession ==
  /\ (ctx.client = "ws" /\ ctx.pc \in {"body", "exiting", "exited"} =>
        ctx.nconnect = 1)
  /\ (ctx.client = "http" => ctx.nconnect = 0)
  /\ (ctx.pc = "exited" =>
        /\ ctx.nclose = 1
        /\ (ctx.client = "ws" =>
              closed /\ \A h \in Handles : ~chan[h].up)
        /\ (ctx.client = "http" => hclosed))

\* The block of a WebsocketClientV3 has been left after a body that made a
\* request and raised, and the session is closed.
ContextExitedAfterRaise ==
  /\ At("ws", "exited")
  /\ ctx.raised
  /\ Len(issued) > 0
  /\ closed

\* C27: make_response returns the decoded value as it is when the model type
\* is None; for a decoded list it returns a new list of the same length whose
\* i-th element is the target type built from the i-th element given, in
\* order; for one decoded object it returns one instance of the target type.
\* It raises only when a construction does.
MakeResponseMaps ==
  mout.st # "none" =>
    /\ (mcls = "None" =>
          mout.st = "ret" /\ mout.kind = "same" /\ mout.val = mdata)
    /\ (mcls # "None" /\ mdata.kind = "list" /\ mout.st = "ret" =>
          /\ mout.kind = "list"
          /\ Len(mout.insts) = Len(mdata.items)
          /\ \A i \in 1..Len(mdata.items) :
               /\ mout.insts[i].cls = mcls
               /\ mout.insts[i] = BaseResponseInit(mcls, mdata.items[i]).inst)
    /\ (mcls # "None" /\ mdata.kind # "list" /\ mout.st = "ret" =>
          /\ mout.kind = "instance"
          /\ Len(mout.insts) = 1
          /\ mout.insts[1].cls = mcls
          /\ mout.insts[1] = BaseResponseInit(mcls, mdata).inst)
    /\ (mcls # "None" /\ mout.st = "raise" =>
          IF mdata.kind = "list"
          THEN \E i \in 1..Len(mdata.items) :
                 BaseResponseInit(mcls, mdata.items[i]).st = "raise"
          ELSE BaseResponseInit(mcls, mdata).st = "raise")

\* make_response has returned a list of two Status instances that differ.
TwoInstancesMade ==
  /\ mcls = "Status"
  /\ mout.st = "ret"
  /\ mout.kind = "list"
  /\ Len(mout.insts) = 2
  /\ mout.insts[1] # mout.insts[2]

\* The value the payload has under key k (its keys are distinct).
Lookup(items, k) == items[CHOOSE i \in 1..Len(items) : items[i][1] = k][2]
HasKey(items, k) == \E i \in 1..Len(items) : items[i][1] = k

\* C28: an instance built from a payload has, for each field its type
\* declares, the payload's value when the payload has that key (for a time
\* field the date-time the value parses to) and None otherwise; the keys the
\* type does not declare are dropped without raising and never become
\* fields of the instance, whose attributes are the declared ones and whose
\* _data is the payload.
FieldsFromPayload ==
  mout.st # "none" /\ mcls # "None" /\ mdata.kind = "dict" =>
    /\ (mout.st = "raise" =>
          \E k \in Declared(mcls) \cap TimeFields :
            HasKey(mdata.items, k) /\ Lookup(mdata.items, k) \notin IsoDates)
    /\ (mout.st = "ret" =>
          LET inst == mout.insts[1] IN
          /\ DOMAIN inst.attrs = Declared(mcls)
          /\ inst.data = mdata
          /\ \A f \in Declared(mcls) :
               inst.attrs[f] =
                 IF ~HasKey(mdata.items, f) THEN PyNone
                 ELSE IF f \in TimeFields THEN ParseDate(Lookup(mdata.items, f))
                 ELSE Lookup(mdata.items, f))

\* A payload key the type does not declare has become an attribute of the
\* instance.
UndeclaredKeyIsField ==
  /\ mcls = "Status"
  /\ mout.st = "ret"
  /\ mout.kind = "instance"
  /\ "__doc__" \in DOMAIN mout.insts[1].attrs

\* C29: under any interleaving of concurrent connect calls on one session, at
\* most one physical connection is established and every caller obtains the
\* same handle (handles are numbered in the order the connections are made,
\* so the one connection is 1).
SingleConnection ==
  /\ connection \in {None, 1}
  /\ (last.op = "connect" /\ last.st = "ret" => last.val = 1)

\* A connect call has returned the handle of a second connection while the
\* first, which nothing refers to any more, is still open.
SecondConnectionMade ==
  /\ connection = 2
  /\ last.op = "connect"
  /\ last.st = "ret"
  /\ last.val = 2
  /\ chan[1].up
  /\ chan[2].up

\* The calls a step hands a frame of connection h to: those suspended in
\* receive on it before the step and no longer so after it.
Readers(h) == {c \in calls : c.ws = h /\ c.pc = "recv" /\ c \notin calls'}

\* C30: every frame the connection delivers is handed to at most one caller:
\* a step that hands a caller a frame of a live connection hands it to that
\* one caller and takes the frame out of the connection's queue, so that no
\* later read, by this or another request or stream, can be given it again.
FrameToOneCaller ==
  [][\A h \in Handles :
       chan[h].up /\ Readers(h) # {} =>
         /\ Cardinality(Readers(h)) = 1
         /\ chan[h].inbox # <<>>
         /\ Len(chan'[h].inbox) = Len(chan[h].inbox) - 1
         /\ last'.op \in Exchanges
         /\ \A c \in Readers(h) : last'.rid = c.rid /\ last'.nr = c.nr + 1]_vars

\* A request has returned a frame while a stream that has also been handed
\* one is open on the same connection.
TwoReadersServed ==
  /\ last.op = "request"
  /\ last.st = "ret"
  /\ last.nr = 1
  /\ \E c \in calls : c.op = "stream" /\ c.nr > 0 /\ chan[c.ws].up

\* C31: across all request and stream_request calls of one session, in any
\* interleaving, no two envelopes written carry the same id, and an id given
\* to a call whose send failed is never given to a later call: every id was
\* handed out once, the calls under way and the envelopes waiting for an
\* answer have ids of their own, each id was written at most once, and the
\* id to come is none of those handed out.
EnvelopeIdsUnique ==
  /\ \A j, k \in 1..Len(issued) : j # k => issued[j] # issued[k]
  /\ \A c, d \in calls : c # d => c.rid # d.rid
  /\ \A j, k \in 1..Len(wire) : j # k => wire[j].id # wire[k].id
  /\ \A i \in DOMAIN sent : sent[i] <= 1
  /\ \A j \in 1..Len(issued) : issued[j] < idc

\* The call given id 0 has ended with nothing written, its send having
\* failed, and a later call has been given id 1 and has ended in its turn.
IdAfterFailedSend ==
  /\ issued = <<0, 1>>
  /\ sent[0] = 0
  /\ \A c \in calls : c.rid # 0
  /\ last.op \in Exchanges
  /\ last.rid = 1

ErrorReplyKeepsSession ==
  [][/\ failed' # failed =>
          /\ last'.op = "request"
          /\ last'.st = "raise"
          /\ last'.exc \in {"SynseError", "NotFound", "InvalidInput"}
          /\ connection' = connection
          /\ connection' # None
          /\ ~closed'
          /\ \A h \in Handles : chan'[h].up = chan[h].up
          /\ \E c \in calls : calls' = calls \ {c} /\ chan'[c.ws].up
          /\ idc' = idc
          /\ issued' = issued
          /\ wire' = wire
     /\ \A c \in calls' \ calls :
          (failed # {} /\ c.pc = "send") =>
             /\ c.rid = Len(issued)
             /\ idc' = c.rid + 1
             /\ \A i \in failed : i < c.rid
             /\ c.ws = connection
     /\ (failed # {} /\ serial' /\ last'.op = "request" /\ last'.st = "ret") =>
             /\ last'.val = last'.rid
             /\ last'.nw = 1
             /\ last'.nr = 1
    ]_vars

\* Request 0 raised on an error frame, and the request made after it, with
\* id 1, has returned the reply to id 1 on the same open connection.
RequestAfterErrorReply ==
  /\ serial
  /\ failed = {0}
  /\ connection = 1
  /\ chan[1].up
  /\ ~closed
  /\ last.op = "request"
  /\ last.st = "ret"
  /\ last.rid = 1
  /\ last.val = 1

\* C34: when a stream_request of the HTTPClientV3 has ended, by exhausting
\* the body or by raising, the session of the client is closed; it stays
\* closed, and every make_request or stream_request made after that raises
\* without a request being issued.
StreamRequestClosesSession ==
  [][/\ hcall'.op = "stream_request" => hclosed'
     /\ hclosed =>
          /\ hclosed'
          /\ (hcall' # hcall /\ hcall'.op \in {"make_request", "stream_request"}) =>
                /\ hcall'.net = "unsent"
                /\ hcall'.out.st = "raise"
                /\ resp' = NoResp
    ]_vars

\* A make_request has failed unsent on a session that close() never closed:
\* a stream_request had closed it.
RequestAfterStreamFailed ==
  /\ hclosed
  /\ closes = 0
  /\ hcall.op = "make_request"
  /\ hcall.net = "unsent"
  /\ hcall.out.st = "raise"
  /\ hcall.out.exc = "RuntimeError"

\* C35: when the connect of __aenter__ fails on a client whose session was
\* open, the `async with` statement is left with a SynseError, __aexit__ and
\* with it close is never called for the block, and the session stays open.
EnterFailureIsSynseError ==
  (At("ws", "failed") /\ ~ctx.wasClosed) =>
    /\ ctx.exc = "SynseError"
    /\ ctx.nclose = 0
    /\ closes = 0
    /\ ~closed

\* The connect of __aenter__ timed out: the block was left with
\* asyncio.TimeoutError, no close was called and the session is open.
EnterTimeoutEscapes ==
  /\ At("ws", "failed")
  /\ ~ctx.wasClosed
  /\ ctx.nconnect = 1
  /\ ctx.exc = "TimeoutError"
  /\ ctx.nclose = 0
  /\ closes = 0
  /\ ~closed
  /\ connection = None

\* C36: for every status code and every shape of body,
\* wrap_and_raise_for_error returns normally or raises an exception of the
\* SynseError family, and never one of another type.
OnlySynseFamilyRaised ==
  httpout # NoOut =>
    \/ httpout.st = "ret"
    \/ httpout.st = "raise" /\ httpout.exc \in SynseFamily

\* A 500 response whose body is a JSON array left the classifier with
\* AttributeError.
ArrayBodyRaisesAttributeError ==
  /\ resp.status = 500
  /\ BodyOf(resp) = "[]"
  /\ JsonLoads(BodyOf(resp)).kind = "array"
  /\ httpout.st = "raise"
  /\ httpout.exc = "AttributeError"

\* C37: close() is idempotent on both clients: a close call on a session
\* that is closed already returns without raising, awaits no further
\* session.close(), and leaves the session closed and everything else as it
\* was; over the life of a client close() closes the session at most once.
CloseIdempotent ==
  [][/\ closes' <= 1
     /\ (closed /\ last' # last /\ last'.op = "close") =>
          /\ last'.st = "ret"
          /\ closed'
          /\ closes' = closes
          /\ chan' = chan
          /\ connection' = connection
     /\ (hclosed /\ ctx' # ctx /\ hcall'.op = "close") =>
          /\ hcall'.out.st = "ret"
          /\ hclosed'
          /\ closes' = closes
    ]_vars

\* The user closed the WebsocketClientV3 by hand in the body of the block and
\* __aexit__ has called close again: it returned, and session.close() was
\* awaited once.
ClosedTwice ==
  /\ At("ws", "exited")
  /\ ctx.nhand = 1
  /\ ctx.nclose = 1
  /\ closes = 1
  /\ closed
  /\ last.op = "close"
  /\ last.st = "ret"

\* C38: the envelope written by request and stream_request always carries
\* the id of the call and its event, on the handle the call read, and it has
\* the data key exactly when the parameters supplied are non-empty: neither
\* None nor an empty object.
EnvelopeCarriesData ==
  [][\A c \in calls :
       (c.pc = "send" /\ c \notin calls' /\ Len(wire') = Len(wire) + 1) =>
          LET env == wire'[Len(wire')] IN
          /\ env.id = c.rid
          /\ env.id \in 0..(MaxIds - 1)
          /\ env.stream = (c.op = "stream")
          /\ env.h = c.ws
          /\ env.hasData = (c.data \notin {"None", "empty"})
    ]_vars

\* Two envelopes are on the wire: the first, of a request called with an
\* empty object, has no data key; the second, of a stream_request called
\* with parameters, has it.
EmptyParamsOmitted ==
  /\ Len(wire) = 2
  /\ ~wire[1].hasData
  /\ wire[2].hasData
  /\ wire[2].stream
  /\ \E c, d \in calls :
       /\ c.pc = "recv" /\ c.op = "request" /\ c.rid = wire[1].id
       /\ c.data = "empty"
       /\ d.pc = "recv" /\ d.op = "stream" /\ d.rid = wire[2].id
       /\ d.data = "params"

====
